---- MODULE Spec2Model ----
(***************************************************************************)
(* Client-side behaviour of the ChaPT front end: the gallery carousel      *)
(* (src/scripts/gallery.js) and, from the main script (src/unnamed/        *)
(* part_000), the animated FAQ accordion (section 5), the throttled header *)
(* scroll handler (section 1) and the mobile menu with its dropdowns       *)
(* (sections 2 and 2b).                                                    *)
(***************************************************************************)
EXTENDS Integers, Sequences, FiniteSets

\* ------------------------------------------------------------------ bounds
MaxSlides == 5          \* largest slides.length explored
MaxArg == 7             \* direct goToSlide calls take an index in -MaxArg..MaxArg
NItems == 2             \* largest number of .accordion-item elements
MaxHeight == 2          \* content.scrollHeight is measured in 1..MaxHeight
MaxPending == 2         \* most transitionend listeners left waiting on one item
MaxHist == 4            \* events remembered per accordion item
NDropdowns == 2         \* largest number of .has-dropdown elements
MaxTimers == 2          \* most setTimeout callbacks left pending at once

TouchXs == {0, 50, 101}     \* screenX values a touch point can report
TouchIds == {"a", "b"}      \* touch points that can be down at once
Keys == {"ArrowLeft", "ArrowRight", "Enter"}
IndexArgs == (0 - MaxArg)..MaxArg
ScrollYs == {0, 149, 150, 151, 400}  \* values window.scrollY can report
Widths == {900, 901}            \* values window.innerWidth can report
DocKeys == {"Escape", "Tab"}    \* keys pressed anywhere in the document

\* ------------------------------------------------------------------- state
VARIABLES
    \* gallery.js: the markup found at start-up
    hasCarousel,    \* document.querySelector(".gallery-carousel") found
    hasTrack,       \* carousel.querySelector(".gallery-track") found
    hasPrevBtn,     \* .gallery-prev found
    hasNextBtn,     \* .gallery-next found
    hasDots,        \* .gallery-dots host found
    totalSlides,    \* slides.length
    \* gallery.js: the controller's state
    currentIndex,
    transform,      \* track.style.transform: <<>> unset, <<n>> translateX(-n%)
    dots,           \* dots[k] is TRUE iff dot k-1 has class "active"
    touchStartX,
    touchEndX,
    touches,        \* touch points now down on the track: id -> <<screenX at start>>
    \* part_000 section 5: one entry per .accordion-item
    nItems,         \* accordionItems.length
    wellFormed,     \* the item has both a summary and an .accordion-content
    open,           \* item.open
    height,         \* content.style.height
    listeners,      \* transitionend listeners registered on content, in order
    \* part_000 section 1: header scroll behaviour
    hasHeader,      \* document.querySelector(".site-header") found
    hasLogo,        \* header.querySelector(".logo-image") found
    isNoHeroPage,   \* body has class "no-hero"
    scrollY,        \* window.scrollY
    scrolled,       \* header has class "scrolled"
    logo,           \* logoImage.src: "white", "brown", or "none" without a logo
    inThrottle,     \* the throttle closure's flag (undefined reads as FALSE)
    timers,         \* setTimeout callbacks of the throttle not yet run
    \* part_000 sections 2 and 2b: mobile menu and dropdowns
    hasNav,         \* mainNav found
    hasToggle,      \* mobileMenuToggle found
    hasOverlay,     \* navOverlay found
    navOpen,        \* mainNav has class "open"
    ariaExpanded,   \* mobileMenuToggle's aria-expanded attribute
    overlayActive,  \* navOverlay has class "active"
    ariaHidden,     \* navOverlay's aria-hidden attribute
    bodyOverflow,   \* document.body.style.overflow
    nDropdowns,     \* number of .has-dropdown elements
    dropdownOpen,   \* dropdownOpen[d]: .has-dropdown d has class "open"
    innerWidth,     \* window.innerWidth
    \* observation
    last,           \* the handler that ran last, its argument, the navigation it made
    hist,           \* per item: how it started and the events it has seen
    run,            \* the index a run of next() calls began at, and its length
    ran,            \* calls of the throttled function since a timer last fired
    openBefore      \* dropdownOpen as the last menu or dropdown handler found it

carouselVars == <<hasCarousel, hasTrack, hasPrevBtn, hasNextBtn, hasDots, totalSlides,
                  currentIndex, transform, dots, touchStartX, touchEndX, touches>>
accordionVars == <<nItems, wellFormed, open, height, listeners, hist>>
scrollVars == <<hasHeader, hasLogo, isNoHeroPage, scrollY, scrolled, logo,
                inThrottle, timers, ran>>
menuVars == <<hasNav, hasToggle, hasOverlay, navOpen, ariaExpanded, overlayActive,
              ariaHidden, bodyOverflow, nDropdowns, dropdownOpen, innerWidth,
              openBefore>>
headerVars == <<scrollVars, menuVars>>
vars == <<carouselVars, accordionVars, headerVars, last, run>>

\* ----------------------------------------------------------------- carousel
AttachedIgnoresSlides == hasCarousel /\ hasTrack

\* gallery.js:33,41: the two early returns; past them every listener is attached.
Attached == hasCarousel /\ hasTrack /\ totalSlides > 0

\* gallery.js:154 Math.abs
Abs(n) == IF n < 0 THEN 0 - n ELSE n

SwipeThreshold == 50

GoToSlideClamp(index, total) ==
    IF index < 0 THEN 0
    ELSE IF index >= total THEN total - 1
    ELSE index

GoToSlideModulo(index, total) == index % total

GoToSlideOffByOne(index, total) ==
    IF index < 0 THEN total - 1
    ELSE IF index > total THEN 0
    ELSE index

\* gallery.js:79-85: the index goToSlide(index) leaves in currentIndex.
GoToSlide(index, total) ==
    IF index < 0 THEN total - 1
    ELSE IF index >= total THEN 0
    ELSE index

TranslateXOneSlideOnly(index) == <<IF index = 0 THEN 0 ELSE 100>>

\* gallery.js:87
TranslateX(index) == <<index * 100>>

\* the track's offset in percent to the left: none while the style is unset
Offset == IF transform = <<>> THEN 0 ELSE transform[1]

CreateDotsOffByOne(total) == [k \in 1..(total - 1) |-> k - 1 = 0]

\* gallery.js:49-60: dot 0 is created active, the others not.
CreateDots(total) == [k \in 1..total |-> k - 1 = 0]

UpdateDotsKeep(old, index) == [k \in 1..Len(old) |-> old[k] \/ (k - 1 = index)]

\* gallery.js:65-72: classList.toggle("active", index === currentIndex) on each dot.
UpdateDots(old, index) == [k \in 1..Len(old) |-> k - 1 = index]

\* gallery.js:78-89: goToSlide as a step; the caller says what else changes.
GoTo(index) ==
    /\ currentIndex' = GoToSlide(index, totalSlides)
    /\ transform' = TranslateX(currentIndex')
    /\ dots' = IF hasDots THEN UpdateDots(dots, currentIndex') ELSE dots

markupVars == <<hasCarousel, hasTrack, hasPrevBtn, hasNextBtn, hasDots, totalSlides>>

NextSlideSkips == GoTo(currentIndex + 2)

\* gallery.js:94-96
NextSlide == GoTo(currentIndex + 1)

PrevSlideStopsAtFirst == GoTo(IF currentIndex = 0 THEN 0 ELSE currentIndex - 1)

\* gallery.js:101-103
PrevSlide == GoTo(currentIndex - 1)

NoRun == [start |-> 0, n |-> 0]

\* What is remembered of the handler that just ran: its name, its argument, the
\* navigation it made, the index that navigation started from (from), and, when
\* it is a nextSlide() right after a prevSlide() or the reverse, the index the
\* pair started from (back; -1 otherwise).
Did(op, arg, nav) ==
    [op |-> op, arg |-> arg, nav |-> nav,
     from |-> IF nav \in {"next", "prev"} THEN currentIndex ELSE 0,
     back |-> IF \/ (last.nav = "next" /\ nav = "prev")
                 \/ (last.nav = "prev" /\ nav = "next")
              THEN last.from ELSE 0 - 1]

\* the run of consecutive nextSlide() calls that the step just taken leaves
CountRun ==
    IF last'.nav = "next"
    THEN IF run.n >= totalSlides
         THEN [start |-> currentIndex, n |-> 1]
         ELSE [run EXCEPT !.n = @ + 1]
    ELSE [start |-> currentIndex', n |-> 0]

\* the navigation a handler makes: nextSlide(), prevSlide() or neither
Navigate(nav) ==
    IF nav = "next" THEN NextSlide
    ELSE IF nav = "prev" THEN PrevSlide
    ELSE UNCHANGED <<currentIndex, transform, dots>>

\* gallery.js:113-115: click on .gallery-next
ClickNext ==
    /\ Attached /\ hasNextBtn
    /\ Navigate("next")
    /\ last' = Did("clickNext", 0, "next")
    /\ UNCHANGED <<markupVars, touchStartX, touchEndX, touches, accordionVars, headerVars>>
    /\ run' = CountRun

\* gallery.js:109-111: click on .gallery-prev
ClickPrev ==
    /\ Attached /\ hasPrevBtn
    /\ Navigate("prev")
    /\ last' = Did("clickPrev", 0, "prev")
    /\ UNCHANGED <<markupVars, touchStartX, touchEndX, touches, accordionVars, headerVars>>
    /\ run' = CountRun

\* gallery.js:57: click on dot i
ClickDot(i) ==
    /\ Attached /\ hasDots
    /\ i \in 0..(totalSlides - 1)
    /\ GoTo(i)
    /\ last' = Did("clickDot", i, "goTo")
    /\ UNCHANGED <<markupVars, touchStartX, touchEndX, touches, accordionVars, headerVars>>
    /\ run' = CountRun

KeyNavSwapped(key) ==
    IF key = "ArrowLeft" THEN "next"
    ELSE IF key = "ArrowRight" THEN "prev"
    ELSE "none"

\* gallery.js:119-123: the navigation a key makes
KeyNav(key) ==
    IF key = "ArrowLeft" THEN "prev"
    ELSE IF key = "ArrowRight" THEN "next"
    ELSE "none"

\* gallery.js:118-124: keydown on the carousel
KeyDown(key) ==
    /\ Attached
    /\ Navigate(KeyNav(key))
    /\ last' = Did(key, 0, KeyNav(key))
    /\ UNCHANGED <<markupVars, touchStartX, touchEndX, touches, accordionVars, headerVars>>
    /\ run' = CountRun

\* gallery.js:130-136: a touch point t goes down on the track at screenX x.
TouchStart(t, x) ==
    /\ Attached
    /\ touches[t] = <<>>
    /\ touchStartX' = x
    /\ touches' = [touches EXCEPT ![t] = <<x>>]
    /\ last' = Did("touchstart", 0, "none")
    /\ UNCHANGED <<markupVars, currentIndex, transform, dots, touchEndX, accordionVars, headerVars>>
    /\ run' = CountRun

SwipeNavInclusive(startX, endX) ==
    LET diff == startX - endX IN
    IF Abs(diff) >= SwipeThreshold
    THEN IF diff > 0 THEN "next" ELSE "prev"
    ELSE "none"

\* gallery.js:150-161: the navigation handleSwipe makes of the two recorded X
SwipeNav(startX, endX) ==
    LET diff == startX - endX IN
    IF Abs(diff) > SwipeThreshold
    THEN IF diff > 0 THEN "next" ELSE "prev"
    ELSE "none"

\* gallery.js:138-145: touch point t is lifted at screenX x.
TouchEnd(t, x) ==
    /\ Attached
    /\ touches[t] # <<>>
    /\ touchEndX' = x
    /\ Navigate(SwipeNav(touchStartX, touchEndX'))
    /\ touches' = [touches EXCEPT ![t] = <<>>]
    /\ last' = Did("touchend", touches[t][1] - x, SwipeNav(touchStartX, touchEndX'))
    /\ UNCHANGED <<markupVars, touchStartX, accordionVars, headerVars>>
    /\ run' = CountRun

\* goToSlide called with an arbitrary integer (the function taken on its own).
CallGoTo(i) ==
    /\ Attached
    /\ GoTo(i)
    /\ last' = Did("goTo", i, "goTo")
    /\ UNCHANGED <<markupVars, touchStartX, touchEndX, touches, accordionVars, headerVars>>
    /\ run' = CountRun

\* gallery.js:31-44,105-106,127-128: the state once the script has run.
InitCarousel ==
    /\ hasCarousel \in BOOLEAN
    /\ hasTrack \in (IF hasCarousel THEN BOOLEAN ELSE {FALSE})
    /\ hasPrevBtn \in (IF hasCarousel THEN BOOLEAN ELSE {FALSE})
    /\ hasNextBtn \in (IF hasCarousel THEN BOOLEAN ELSE {FALSE})
    /\ hasDots \in (IF hasCarousel THEN BOOLEAN ELSE {FALSE})
    /\ totalSlides \in (IF hasCarousel THEN 0..MaxSlides ELSE {0})
    /\ currentIndex = 0
    /\ transform = <<>>
    /\ dots = IF Attached /\ hasDots THEN CreateDots(totalSlides) ELSE <<>>
    /\ touchStartX = 0
    /\ touchEndX = 0
    /\ touches = [t \in TouchIds |-> <<>>]

NoCarousel ==
    /\ hasCarousel = FALSE /\ hasTrack = FALSE /\ hasPrevBtn = FALSE
    /\ hasNextBtn = FALSE /\ hasDots = FALSE /\ totalSlides = 0
    /\ currentIndex = 0 /\ transform = <<>> /\ dots = <<>>
    /\ touchStartX = 0 /\ touchEndX = 0
    /\ touches = [t \in TouchIds |-> <<>>]

CarouselEvent ==
    \/ ClickNext
    \/ ClickPrev
    \/ \E i \in 0..(MaxSlides - 1) : ClickDot(i)
    \/ \E key \in Keys : KeyDown(key)
    \/ \E t \in TouchIds, x \in TouchXs : TouchStart(t, x)
    \/ \E t \in TouchIds, x \in TouchXs : TouchEnd(t, x)

\* ---------------------------------------------------------------- accordion
Items == 1..NItems
Heights == 1..MaxHeight

\* values of content.style.height
Unset == [kind |-> "unset", px |-> 0]       \* never assigned
Zero == [kind |-> "0", px |-> 0]            \* "0"
Auto == [kind |-> "auto", px |-> 0]         \* "auto"
Px(h) == [kind |-> "px", px |-> h]          \* h + "px"

InitialisedUntilMalformed(i) == i \in 1..nItems /\ \A j \in 1..i : wellFormed[j]

\* part_000:289: the guard that skips a malformed item
Initialised(i) == i \in 1..nItems /\ wellFormed[i]

\* what an item remembers of its own past, up to MaxHist events
Overflow == <<"more">>
Record(h, e) ==
    IF h = Overflow \/ Len(h) > MaxHist THEN Overflow ELSE Append(h, e)

InitialHeightAlwaysZero(isOpen, scrollHeight) == Zero

\* part_000:292
InitialHeight(isOpen, scrollHeight) == IF isOpen THEN Px(scrollHeight) ELSE Zero

ClosingClickMarksClosed(st) == [st EXCEPT !.open = FALSE, !.height = Zero]

\* part_000:297-301: the closing branch up to the listener's registration.
\* (the height passes through scrollHeight + "px" before it is set to "0")
ClosingClick(st) == [st EXCEPT !.height = Zero]

OpeningClickForgetsOpen(st, scrollHeight) == [st EXCEPT !.height = Px(scrollHeight)]

\* part_000:313-317: the opening branch up to the listener's registration.
OpeningClick(st, scrollHeight) == [st EXCEPT !.open = TRUE, !.height = Px(scrollHeight)]

RunListenerNeverCloses(kind, st) ==
    IF kind = "closing" THEN st
    ELSE [st EXCEPT !.height = Auto]

RunListenerNoAuto(kind, st) ==
    IF kind = "closing" THEN [st EXCEPT !.open = FALSE]
    ELSE st

\* part_000:305-308 and 321-324: the body of one transitionend listener.
RunListener(kind, st) ==
    IF kind = "closing" THEN [st EXCEPT !.open = FALSE]
    ELSE [st EXCEPT !.height = Auto]

\* A transitionend dispatch: every registered listener runs, in registration order.
RECURSIVE RunListeners(_, _)
RunListeners(ls, st) ==
    IF ls = <<>> THEN st
    ELSE RunListeners(Tail(ls), RunListener(Head(ls), st))

ClickSingleOpen(i, h) ==
    /\ Initialised(i)
    /\ Len(listeners[i]) < MaxPending
    /\ LET st == [open |-> open[i], height |-> height[i]]
           new == IF open[i] THEN ClosingClick(st) ELSE OpeningClick(st, h)
       IN /\ open' = [j \in Items |-> IF j = i THEN new.open ELSE FALSE]
          /\ height' = [height EXCEPT ![i] = new.height]
    /\ listeners' = [listeners EXCEPT
                       ![i] = Append(@, IF open[i] THEN "closing" ELSE "opening")]
    /\ hist' = [hist EXCEPT ![i] = Record(@, "click")]
    /\ last' = Did("click", i, "none")
    /\ UNCHANGED <<carouselVars, headerVars, run, nItems, wellFormed>>

\* part_000:294-328: click on the summary of item i; h is content.scrollHeight now.
Click(i, h) ==
    /\ Initialised(i)
    /\ Len(listeners[i]) < MaxPending
    /\ LET st == [open |-> open[i], height |-> height[i]]
           new == IF open[i] THEN ClosingClick(st) ELSE OpeningClick(st, h)
       IN /\ open' = [open EXCEPT ![i] = new.open]
          /\ height' = [height EXCEPT ![i] = new.height]
    /\ listeners' = [listeners EXCEPT
                       ![i] = Append(@, IF open[i] THEN "closing" ELSE "opening")]
    /\ hist' = [hist EXCEPT ![i] = Record(@, "click")]
    /\ last' = Did("click", i, "none")
    /\ UNCHANGED <<carouselVars, headerVars, run, nItems, wellFormed>>

\* The height transition of item i ends: transitionend is dispatched on its content.
TransitionEnd(i) ==
    /\ Initialised(i)
    /\ listeners[i] # <<>>
    /\ LET new == RunListeners(listeners[i], [open |-> open[i], height |-> height[i]])
       IN /\ open' = [open EXCEPT ![i] = new.open]
          /\ height' = [height EXCEPT ![i] = new.height]
    /\ listeners' = [listeners EXCEPT ![i] = <<>>]
    /\ hist' = [hist EXCEPT ![i] = Record(@, "end")]
    /\ last' = Did("transitionend", i, "none")
    /\ UNCHANGED <<carouselVars, headerVars, run, nItems, wellFormed>>

\* part_000:283-292: the items found at start-up and their initial heights.
InitAccordion ==
    /\ nItems \in 0..NItems
    /\ wellFormed \in [Items -> BOOLEAN]
    /\ open \in [Items -> BOOLEAN]
    /\ \A i \in Items : i > nItems => ~wellFormed[i] /\ ~open[i]
    /\ height \in [Items -> {Unset, Zero} \cup {Px(h) : h \in Heights}]
    /\ \A i \in Items :
         IF Initialised(i)
         THEN \E h \in Heights : height[i] = InitialHeight(open[i], h)
         ELSE height[i] = Unset
    /\ listeners = [i \in Items |-> <<>>]
    /\ hist = [i \in Items |-> IF ~Initialised(i) THEN <<"skipped">>
                               ELSE IF open[i] THEN <<"open">> ELSE <<"closed">>]

NoAccordion ==
    /\ nItems = 0
    /\ wellFormed = [i \in Items |-> FALSE]
    /\ open = [i \in Items |-> FALSE]
    /\ height = [i \in Items |-> Unset]
    /\ listeners = [i \in Items |-> <<>>]
    /\ hist = [i \in Items |-> <<"skipped">>]

AccordionEvent ==
    \/ \E i \in Items, h \in Heights : Click(i, h)
    \/ \E i \in Items : TransitionEnd(i)

\* ------------------------------------------------------------ header scroll
ScrollThreshold == 150

\* part_000:54-80: handleHeaderScroll with window.scrollY = y; st is the header's
\* "scrolled" class and the logo's src.
HandleHeaderScroll(st, y) ==
    IF ~hasHeader THEN st
    ELSE IF isNoHeroPage \/ y > ScrollThreshold
         THEN [scrolled |-> TRUE, logo |-> IF hasLogo THEN "brown" ELSE st.logo]
         ELSE [scrolled |-> FALSE, logo |-> IF hasLogo THEN "white" ELSE st.logo]

ThrottledRunsAlways(flag) == TRUE

\* part_000:91: the throttle wrapper's test, if (!inThrottle)
ThrottledRuns(flag) == ~flag

\* part_000:90-96,100: a scroll event with window.scrollY = y reaches the wrapper
\* throttle() returned.
Scroll(y) ==
    /\ scrollY' = y
    /\ IF ThrottledRuns(inThrottle)
       THEN /\ timers < MaxTimers
            /\ LET new == HandleHeaderScroll([scrolled |-> scrolled, logo |-> logo], y)
               IN scrolled' = new.scrolled /\ logo' = new.logo
            /\ inThrottle' = TRUE
            /\ timers' = timers + 1
            /\ ran' = ran + 1
       ELSE UNCHANGED <<scrolled, logo, inThrottle, timers, ran>>
    /\ last' = Did("scroll", y, "none")
    /\ UNCHANGED <<hasHeader, hasLogo, isNoHeroPage, menuVars,
                   carouselVars, accordionVars, run>>

\* part_000:94: a setTimeout callback of the wrapper runs, limit ms after it was set.
TimerFire ==
    /\ timers > 0
    /\ inThrottle' = FALSE
    /\ timers' = timers - 1
    /\ ran' = 0
    /\ last' = Did("timer", 0, "none")
    /\ UNCHANGED <<hasHeader, hasLogo, isNoHeroPage, scrollY, scrolled, logo, menuVars,
                   carouselVars, accordionVars, run>>

\* part_000:30,36,43,101: the header as the script leaves it at start-up, after
\* its direct call of handleHeaderScroll.
InitScroll ==
    /\ hasHeader \in BOOLEAN
    /\ hasLogo \in (IF hasHeader THEN BOOLEAN ELSE {FALSE})
    /\ isNoHeroPage \in BOOLEAN
    /\ scrollY \in ScrollYs
    /\ \E markup \in {"white", "brown"} :
         LET st == HandleHeaderScroll(
                       [scrolled |-> FALSE,
                        logo |-> IF hasLogo THEN markup ELSE "none"], scrollY)
         IN scrolled = st.scrolled /\ logo = st.logo
    /\ inThrottle = FALSE
    /\ timers = 0
    /\ ran = 0

NoScroll ==
    /\ hasHeader = FALSE /\ hasLogo = FALSE /\ isNoHeroPage = FALSE
    /\ scrollY = 0 /\ scrolled = FALSE /\ logo = "none"
    /\ inThrottle = FALSE /\ timers = 0 /\ ran = 0

ScrollEvent ==
    \/ \E y \in ScrollYs : Scroll(y)
    \/ TimerFire

\* -------------------------------------------------- mobile menu and dropdowns
Dropdowns == 1..NDropdowns
MobileMaxWidth == 900

\* part_000:157,188
IsMobile(w) == w <= MobileMaxWidth

\* setAttribute's conversion of a boolean to the attribute's string
Str(b) == IF b THEN "true" ELSE "false"

menuParts == <<navOpen, ariaExpanded, overlayActive, ariaHidden, bodyOverflow>>

\* part_000:110-124
ToggleMobileMenu ==
    IF ~hasNav \/ ~hasToggle THEN UNCHANGED menuParts
    ELSE LET isOpen == ~navOpen IN
         /\ navOpen' = isOpen
         /\ ariaExpanded' = Str(isOpen)
         /\ overlayActive' = IF hasOverlay THEN isOpen ELSE overlayActive
         /\ ariaHidden' = IF hasOverlay THEN Str(~isOpen) ELSE ariaHidden
         /\ bodyOverflow' = IF isOpen THEN "hidden" ELSE ""

CloseMobileMenuKeepsScrollLock ==
    IF ~hasNav \/ ~hasToggle THEN UNCHANGED menuParts
    ELSE /\ navOpen' = FALSE
         /\ ariaExpanded' = "false"
         /\ overlayActive' = IF hasOverlay THEN FALSE ELSE overlayActive
         /\ ariaHidden' = IF hasOverlay THEN "true" ELSE ariaHidden
         /\ UNCHANGED bodyOverflow

\* part_000:129-141
CloseMobileMenu ==
    IF ~hasNav \/ ~hasToggle THEN UNCHANGED menuParts
    ELSE /\ navOpen' = FALSE
         /\ ariaExpanded' = "false"
         /\ overlayActive' = IF hasOverlay THEN FALSE ELSE overlayActive
         /\ ariaHidden' = IF hasOverlay THEN "true" ELSE ariaHidden
         /\ bodyOverflow' = ""

ToggleDropdownKeepsOthers(d) ==
    IF IsMobile(innerWidth)
    THEN dropdownOpen' = [dropdownOpen EXCEPT ![d] = ~dropdownOpen[d]]
    ELSE UNCHANGED dropdownOpen

\* part_000:186-205: the click listener of the toggle link of dropdown d
ToggleDropdown(d) ==
    IF IsMobile(innerWidth)
    THEN dropdownOpen' = [e \in Dropdowns |-> IF e = d THEN ~dropdownOpen[d] ELSE FALSE]
    ELSE UNCHANGED dropdownOpen

\* part_000:209-214: the document's click listener, for a target that has no
\* .has-dropdown ancestor
CloseDropdowns == dropdownOpen' = [e \in Dropdowns |-> FALSE]

menuMarkup == <<hasNav, hasToggle, hasOverlay, nDropdowns, innerWidth>>

\* the part every menu and dropdown handler shares
MenuStep(op, arg) ==
    /\ openBefore' = dropdownOpen
    /\ last' = Did(op, arg, "none")
    /\ UNCHANGED <<menuMarkup, scrollVars, carouselVars, accordionVars, run>>

\* part_000:144-146, then 208-215 as the click bubbles to the document
ClickMenuToggle ==
    /\ hasToggle
    /\ ToggleMobileMenu
    /\ CloseDropdowns
    /\ MenuStep("clickMenuToggle", 0)

\* part_000:148-150, then 208-215
ClickOverlay ==
    /\ hasOverlay
    /\ CloseMobileMenu
    /\ CloseDropdowns
    /\ MenuStep("clickOverlay", 0)

\* part_000:153-163 for a .nav-menu link outside every dropdown, then 208-215
ClickNavLink ==
    /\ CloseMobileMenu
    /\ CloseDropdowns
    /\ MenuStep("clickNavLink", 0)

\* part_000:153-163 for a link of the submenu of dropdown d; the document's
\* listener (208-215) finds the .has-dropdown ancestor and does nothing
ClickSubmenuLink(d) ==
    /\ d \in 1..nDropdowns
    /\ CloseMobileMenu
    /\ UNCHANGED dropdownOpen
    /\ MenuStep("clickSubmenuLink", d)

\* A click on the toggle link of dropdown d runs its .nav-menu link listener
\* (part_000:153-163), its dropdown listener (186-205) and the document's
\* listener (208-215), which finds the .has-dropdown ancestor.
ClickDropdownToggle(d) ==
    /\ d \in 1..nDropdowns
    /\ IF IsMobile(innerWidth) THEN UNCHANGED menuParts ELSE CloseMobileMenu
    /\ ToggleDropdown(d)
    /\ MenuStep("clickDropdownToggle", d)

\* part_000:165-167, then 208-215
ClickCta ==
    /\ CloseMobileMenu
    /\ CloseDropdowns
    /\ MenuStep("clickCta", 0)

\* part_000:170-174: keydown anywhere in the document
DocKeyDown(key) ==
    /\ IF key = "Escape" /\ hasNav /\ navOpen
       THEN CloseMobileMenu
       ELSE UNCHANGED menuParts
    /\ UNCHANGED dropdownOpen
    /\ MenuStep(key, 0)

\* part_000:208-215: a click on anything else, outside every dropdown
ClickOutside ==
    /\ UNCHANGED menuParts
    /\ CloseDropdowns
    /\ MenuStep("clickOutside", 0)

\* the window is resized; the script has no resize listener
Resize(w) ==
    /\ w # innerWidth
    /\ innerWidth' = w
    /\ openBefore' = dropdownOpen
    /\ last' = Did("resize", 0, "none")
    /\ UNCHANGED <<hasNav, hasToggle, hasOverlay, nDropdowns, menuParts, dropdownOpen,
                   scrollVars, carouselVars, accordionVars, run>>

\* part_000:31-35,181: the menu as the markup gives it: closed, with at most
\* one dropdown open.
InitMenu ==
    /\ hasNav \in BOOLEAN
    /\ hasToggle \in BOOLEAN
    /\ hasOverlay \in BOOLEAN
    /\ navOpen = FALSE
    /\ ariaExpanded = "false"
    /\ overlayActive = FALSE
    /\ ariaHidden = "true"
    /\ bodyOverflow = ""
    /\ nDropdowns \in 0..NDropdowns
    /\ dropdownOpen \in [Dropdowns -> BOOLEAN]
    /\ \A d \in Dropdowns : dropdownOpen[d] => d <= nDropdowns
    /\ \A d, e \in Dropdowns : dropdownOpen[d] /\ dropdownOpen[e] => d = e
    /\ innerWidth \in Widths
    /\ openBefore = dropdownOpen

NoMenu ==
    /\ hasNav = FALSE /\ hasToggle = FALSE /\ hasOverlay = FALSE
    /\ navOpen = FALSE /\ ariaExpanded = "false" /\ overlayActive = FALSE
    /\ ariaHidden = "true" /\ bodyOverflow = ""
    /\ nDropdowns = 0 /\ dropdownOpen = [d \in Dropdowns |-> FALSE]
    /\ innerWidth = 901 /\ openBefore = [d \in Dropdowns |-> FALSE]

MenuEvent ==
    \/ ClickMenuToggle
    \/ ClickOverlay
    \/ ClickNavLink
    \/ \E d \in Dropdowns : ClickSubmenuLink(d)
    \/ \E d \in Dropdowns : ClickDropdownToggle(d)
    \/ ClickCta
    \/ \E key \in DocKeys : DocKeyDown(key)
    \/ ClickOutside
    \/ \E w \in Widths : Resize(w)

\* ----------------------------------------------------------- specifications
Loaded == [op |-> "load", arg |-> 0, nav |-> "none", from |-> 0, back |-> 0 - 1]
\* Both scripts on one page. The two components share no state, so each is
\* explored on a page of its own below; this product is the reference.
Init ==
    /\ InitCarousel /\ InitAccordion /\ InitScroll /\ InitMenu
    /\ last = Loaded /\ run = NoRun
Next == CarouselEvent \/ AccordionEvent \/ ScrollEvent \/ MenuEvent
Spec == Init /\ [][Next]_vars

\* a page with the gallery and no accordion item
NoHeader == NoScroll /\ NoMenu
CarouselInit == InitCarousel /\ NoAccordion /\ NoHeader /\ last = Loaded /\ run = NoRun
CarouselNext == CarouselEvent
SpecCarousel == CarouselInit /\ [][CarouselNext]_vars

\* the same page, with goToSlide also called directly on any index
GoToNext == CarouselEvent \/ \E i \in IndexArgs : CallGoTo(i)
SpecGoTo == CarouselInit /\ [][GoToNext]_vars

\* a page with accordion items and no gallery
AccordionInit == NoCarousel /\ InitAccordion /\ NoHeader /\ last = Loaded /\ run = NoRun
AccordionNext == AccordionEvent
SpecAccordion == AccordionInit /\ [][AccordionNext]_vars

\* a page with at most two accordion items on which every height transition
\* that was started also ends: the browser dispatches transitionend on a
\* content that has listeners waiting
TwoItemInit == AccordionInit /\ nItems <= 2
AccordionFairness == \A i \in Items : WF_vars(TransitionEnd(i))
SpecAccordionFair == TwoItemInit /\ [][AccordionNext]_vars /\ AccordionFairness

\* a page with the header and neither gallery, accordion nor menu
ScrollInit ==
    /\ NoCarousel /\ NoAccordion /\ InitScroll /\ NoMenu
    /\ last = Loaded /\ run = NoRun
ScrollNext == ScrollEvent
SpecScroll == ScrollInit /\ [][ScrollNext]_vars

\* a page with the mobile menu and its dropdowns only
MenuInit ==
    /\ NoCarousel /\ NoAccordion /\ NoScroll /\ InitMenu
    /\ last = Loaded /\ run = NoRun
MenuNext == MenuEvent
SpecMenu == MenuInit /\ [][MenuNext]_vars

\* ------------------------------------------------------------------ claims
DoubleClickThenEnd == <<"closed", "click", "click", "end">>
TwoFullToggles == <<"closed", "click", "end", "click", "end">>

\* C1: an item that starts closed and is clicked twice before any transitionend
\* is, once the pending listeners have run, closed with content height "0".
C1_RapidDoubleToggleEndsClosed ==
    \A i \in Items :
        (Initialised(i) /\ hist[i] = DoubleClickThenEnd /\ listeners[i] = <<>>)
            => (open[i] = FALSE /\ height[i] = Zero)

\* C2 as stated: goToSlide(i) leaves currentIndex = i mod totalSlides for every
\* integer i.
C2_GoToIsModuloForAll ==
    (Attached /\ last.op = "goTo") => currentIndex = last.arg % totalSlides

\* C2 amended: goToSlide(i) leaves currentIndex = i mod totalSlides for every i
\* with -1 <= i <= totalSlides (one step past either end at most).
C2_GoToIsModuloOneStepOut ==
    (Attached /\ last.op = "goTo" /\ last.arg \in (0 - 1)..totalSlides)
        => currentIndex = last.arg % totalSlides

C2_Witness ==
    /\ Attached /\ totalSlides = 5 /\ last.op = "goTo"
    /\ last.arg = 0 - 1 /\ currentIndex = 4

\* C3: goToSlide(index) leaves the last slide for index < 0, the first slide for
\* index >= totalSlides, and index itself otherwise; it never clamps to the
\* nearest edge.
C3_GoToWrapsToFarEdge ==
    (Attached /\ last.op = "goTo") =>
        /\ last.arg < 0 => currentIndex = totalSlides - 1
        /\ last.arg >= totalSlides => currentIndex = 0
        /\ last.arg \in 0..(totalSlides - 1) => currentIndex = last.arg

C3_Witness ==
    /\ Attached /\ totalSlides >= 3 /\ last.op = "goTo"
    /\ last.arg < 0 - 1 /\ currentIndex = totalSlides - 1

\* C4: on an initialised carousel currentIndex stays within 0..totalSlides-1
\* after any sequence of events, and totalSlides never changes.
C4_IndexInRangeTotalFixed ==
    /\ [](Attached => currentIndex \in 0..(totalSlides - 1))
    /\ [][totalSlides' = totalSlides]_vars

C4_Witness ==
    /\ Attached /\ totalSlides = 3 /\ last.op = "touchend" /\ last.nav = "next"
    /\ currentIndex = 0 /\ transform = <<0>>

\* C5: totalSlides consecutive next() calls bring currentIndex back to the index
\* the run began at.
C5_NextCycles ==
    (Attached /\ run.n = totalSlides) => currentIndex = run.start

C5_Witness ==
    /\ Attached /\ totalSlides >= 3 /\ run.n = totalSlides
    /\ run.start = 2 /\ currentIndex = 2

\* C6: a touchend whose |touchStartX - touchEndX| does not exceed the threshold
\* changes neither currentIndex nor the track offset nor the active dot.
C6_ShortSwipeIsNoOp ==
    [][(last'.op = "touchend" /\ Abs(touchStartX' - touchEndX') <= SwipeThreshold)
        => UNCHANGED <<currentIndex, transform, dots>>]_vars

C6_Witness ==
    /\ Attached /\ hasDots /\ totalSlides >= 2 /\ last.op = "touchend"
    /\ Abs(touchStartX - touchEndX) = SwipeThreshold
    /\ last.nav = "none" /\ currentIndex = 1

\* C7: a touchend whose touch point moved more than the threshold from where that
\* same touch point went down makes exactly one navigation: next() when it moved
\* leftward, previous() when it moved rightward.
C7_SwipeUsesOwnStart ==
    (Attached /\ last.op = "touchend" /\ Abs(last.arg) > SwipeThreshold)
        => last.nav = (IF last.arg > 0 THEN "next" ELSE "prev")

\* C8: with a dot host, there is one dot per slide and the active dots are
\* exactly the one at position currentIndex.
C8_OneActiveDot ==
    (Attached /\ hasDots) =>
        /\ Len(dots) = totalSlides
        /\ \A k \in 1..Len(dots) : dots[k] <=> (k - 1 = currentIndex)

C8_Witness ==
    /\ Attached /\ hasDots /\ totalSlides >= 3 /\ last.nav = "next"
    /\ currentIndex = 2 /\ dots[3] /\ ~dots[2]

\* C9: an item that starts closed and is toggled twice, each transition ending
\* before the next click, is closed with content height "0".
C9_TwoTogglesReturnToClosed ==
    \A i \in Items :
        (Initialised(i) /\ hist[i] = TwoFullToggles)
            => (open[i] = FALSE /\ height[i] = Zero /\ listeners[i] = <<>>)

C9_Witness ==
    \E i \in Items :
        Initialised(i) /\ hist[i] = TwoFullToggles /\ ~open[i] /\ height[i] = Zero

\* C10: an item never has more than one transitionend listener waiting.
C10_AtMostOnePendingListener ==
    \A i \in Items : Len(listeners[i]) <= 1

OpenDoubleClickThenEnd == <<"open", "click", "click", "end">>
OneFullOpening == <<"closed", "click", "end">>

\* C11: an item clicked twice before any transitionend has, once the pending
\* listeners have run, the open flag it started with: one that started open is
\* open, one that started closed is closed.
C11_RapidDoubleToggleKeepsFlag ==
    \A i \in Items :
        (Initialised(i) /\ listeners[i] = <<>>) =>
            /\ hist[i] = OpenDoubleClickThenEnd => open[i] = TRUE
            /\ hist[i] = DoubleClickThenEnd => open[i] = FALSE

\* C12: a click on an open item sets the content height to "0" and leaves the
\* item open; an item's open flag goes from true to false only in a step that
\* dispatches transitionend on that item.
C12_ClosedOnlyOnTransitionEnd ==
    [][\A i \in Items :
         /\ (last'.op = "click" /\ last'.arg = i /\ open[i])
                => (open'[i] /\ height'[i] = Zero)
         /\ (open[i] /\ ~open'[i])
                => (last'.op = "transitionend" /\ last'.arg = i)]_vars

C12_Witness ==
    \E i \in Items :
        /\ Initialised(i) /\ last.op = "click" /\ last.arg = i
        /\ hist[i] = <<"open", "click">>
        /\ open[i] /\ height[i] = Zero /\ listeners[i] = <<"closing">>

\* C13: a click on a closed item marks it open at once and sets the content
\* height to the scrollHeight measured in that click; a transitionend that finds
\* only that click's listener sets the height to "auto" and leaves the item open.
C13_OpeningThenAuto ==
    [][\A i \in Items :
         /\ \A h \in Heights :
              (Click(i, h) /\ ~open[i]) => (open'[i] /\ height'[i] = Px(h))
         /\ (last'.op = "transitionend" /\ last'.arg = i /\ listeners[i] = <<"opening">>)
                => (open'[i] /\ height'[i] = Auto)]_vars

C13_Witness ==
    \E i \in Items :
        /\ Initialised(i) /\ last.op = "transitionend" /\ last.arg = i
        /\ hist[i] = OneFullOpening /\ open[i] /\ height[i] = Auto

\* C14: an item with no transitionend listener waiting has a content height that
\* agrees with its open flag: "0" when closed, a pixel height or "auto" when open.
C14_HeightAgreesWithOpen ==
    \A i \in Items :
        (Initialised(i) /\ listeners[i] = <<>>) =>
            IF open[i] THEN height[i].kind \in {"px", "auto"} ELSE height[i] = Zero

\* C15: a click on item i, and a transitionend on item i, leave the open flag,
\* the content height and the waiting listeners of every other item as they were.
C15_OtherItemsUntouched ==
    [][\A i \in Items, j \in Items :
         (j # i /\ last'.op \in {"click", "transitionend"} /\ last'.arg = i)
            => (open'[j] = open[j] /\ height'[j] = height[j]
                /\ listeners'[j] = listeners[j])]_vars

C15_Witness ==
    /\ nItems >= 2 /\ \A i \in 1..2 : Initialised(i) /\ open[i]
    /\ hist[1] = <<"closed", "click">> /\ hist[2] = OneFullOpening
    /\ last.op = "click" /\ last.arg = 1 /\ height[2] = Auto

\* C16: an item that has seen no event yet is as the initialisation left it: one
\* whose markup is open is open with a pixel height that was measured and no
\* listener; one whose markup is closed has content height "0" and no listener.
C16_InitialHeightFollowsMarkup ==
    \A i \in Items :
        /\ hist[i] = <<"open">> =>
              (open[i] /\ height[i] \in {Px(h) : h \in Heights} /\ listeners[i] = <<>>)
        /\ hist[i] = <<"closed">> =>
              (~open[i] /\ height[i] = Zero /\ listeners[i] = <<>>)

C16_Witness ==
    \E i \in Items :
        /\ last = Loaded /\ Initialised(i) /\ open[i]
        /\ height[i] = Px(MaxHeight) /\ listeners[i] = <<>>

\* C17: an item without its summary or content never gets a height or a
\* listener, and every item that has both, before or after it, is initialised.
C17_MalformedItemSkipped ==
    \A i \in 1..nItems :
        IF wellFormed[i]
        THEN height[i] # Unset /\ hist[i] # <<"skipped">>
        ELSE height[i] = Unset /\ listeners[i] = <<>> /\ hist[i] = <<"skipped">>

C17_Witness ==
    /\ nItems >= 2 /\ ~wellFormed[1] /\ wellFormed[2]
    /\ height[1] = Unset /\ listeners[1] = <<>>
    /\ hist[2] = OneFullOpening /\ open[2] /\ height[2] = Auto

\* C18: without the carousel, its track or any slide, no dot is created and
\* nothing that happens later changes the carousel's state.
C18_InertWithoutMarkup ==
    (~(hasCarousel /\ hasTrack /\ totalSlides > 0)) =>
        /\ dots = <<>> /\ currentIndex = 0 /\ transform = <<>>
        /\ touchStartX = 0 /\ touchEndX = 0
        /\ last = Loaded /\ run = NoRun

C18_Witness ==
    /\ hasCarousel /\ hasTrack /\ hasDots /\ hasNextBtn /\ totalSlides = 0
    /\ dots = <<>> /\ last = Loaded

\* C19: there are always exactly totalSlides dots, only dot 0 is active before
\* any event, and a click on dot i leaves currentIndex = i.
C19_DotsPerSlideAndJump ==
    (Attached /\ hasDots) =>
        /\ Len(dots) = totalSlides
        /\ last = Loaded => \A k \in 1..totalSlides : dots[k] <=> (k = 1)
        /\ last.op = "clickDot" => currentIndex = last.arg

C19_Witness ==
    /\ Attached /\ hasDots /\ totalSlides = 5 /\ Len(dots) = 5
    /\ last.op = "clickDot" /\ last.arg = 3 /\ currentIndex = 3

\* C20: a keydown with ArrowLeft does what prevSlide does, one with ArrowRight
\* what nextSlide does, and one with any other key changes nothing of the carousel.
C20_ArrowKeysNavigate ==
    [][/\ last'.op = "ArrowLeft" =>
            currentIndex' = (IF currentIndex = 0 THEN totalSlides - 1
                             ELSE currentIndex - 1)
       /\ last'.op = "ArrowRight" =>
            currentIndex' = (IF currentIndex = totalSlides - 1 THEN 0
                             ELSE currentIndex + 1)
       /\ last'.op \in Keys \ {"ArrowLeft", "ArrowRight"} =>
            UNCHANGED <<currentIndex, transform, dots>>]_vars

C20_Witness ==
    /\ Attached /\ totalSlides >= 3 /\ last.op = "ArrowLeft" /\ last.nav = "prev"
    /\ currentIndex = totalSlides - 1 /\ transform = TranslateX(totalSlides - 1)

\* C21: the track's offset is currentIndex * 100 percent in every state: the
\* style is unset only while currentIndex is 0, and every goToSlide, nextSlide
\* or prevSlide leaves translateX(-(currentIndex * 100)%).
C21_OffsetMatchesIndex ==
    Attached =>
        /\ Offset = currentIndex * 100
        /\ transform = <<>> => currentIndex = 0
        /\ last.nav \in {"next", "prev", "goTo"} => transform = <<currentIndex * 100>>

C21_Witness ==
    /\ Attached /\ totalSlides = 5 /\ last.nav = "prev" /\ last.from = 0
    /\ currentIndex = 4 /\ transform = <<400>>

\* C23: a nextSlide() directly followed by a prevSlide(), and a prevSlide()
\* directly followed by a nextSlide(), leave currentIndex where it was before
\* the pair, at either end of the slides as well as inside.
C23_NextPrevInverse ==
    (Attached /\ last.back >= 0) => currentIndex = last.back

C23_Witness ==
    /\ Attached /\ totalSlides = 3 /\ last.op = "clickPrev" /\ last.nav = "prev"
    /\ last.from = 0 /\ last.back = 2 /\ currentIndex = 2

\* a closing listener is waiting on item i: an open item i was clicked and the
\* transition that click began has not ended yet
Closing(i) == \E k \in 1..Len(listeners[i]) : listeners[i][k] = "closing"

\* C22: when every started transition ends, a click on an open item leads to
\* the item being closed; it does not stay open at height "0" for ever.
C22_ClosingClickLeadsToClosed ==
    \A i \in Items : (Initialised(i) /\ open[i] /\ Closing(i)) ~> ~open[i]

C22_Witness ==
    \E i \in Items :
        /\ Initialised(i) /\ hist[i] = <<"open", "click", "end">>
        /\ ~open[i] /\ height[i] = Zero /\ listeners[i] = <<>>

\* C24: the throttled handler calls handleHeaderScroll at most once between two
\* timer firings: a scroll event that finds the flag clear calls it at once, a
\* scroll event that arrives while the timer is pending changes nothing, the
\* timer's firing does not make up for a dropped call, and it clears the flag
\* so that the next scroll event calls it again.
C24_ThrottleOncePerWindow ==
    [][/\ ran' <= 1 /\ timers' <= 1 /\ (inThrottle' <=> timers' = 1)
       /\ (last'.op = "scroll" /\ ~inThrottle) =>
             /\ ran' = 1 /\ inThrottle'
             /\ hasHeader => (scrolled' <=> (isNoHeroPage \/ scrollY' > 150))
       /\ (last'.op = "scroll" /\ inThrottle) =>
             UNCHANGED <<scrolled, logo, inThrottle, timers, ran>>
       /\ last'.op = "timer" =>
             (UNCHANGED <<scrolled, logo>> /\ ~inThrottle' /\ ran' = 0)]_vars

\* a scroll to 151 was dropped: the header still shows the state of scrollY 0
C24_Witness ==
    /\ hasHeader /\ ~isNoHeroPage /\ last.op = "scroll" /\ last.arg = 151
    /\ scrollY = 151 /\ ~scrolled /\ inThrottle /\ timers = 1 /\ ran = 1

\* C25: whenever the nav and its toggle exist, the toggle's aria-expanded is
\* "true" and body scrolling is locked exactly when the nav has the open class,
\* and so are the overlay's active class and aria-hidden "false" when there is
\* an overlay.
C25_MenuPartsAgree ==
    (hasNav /\ hasToggle) =>
        /\ ariaExpanded = "true" <=> navOpen
        /\ ariaExpanded \in {"true", "false"}
        /\ bodyOverflow = "hidden" <=> navOpen
        /\ bodyOverflow \in {"hidden", ""}
        /\ hasOverlay =>
             /\ overlayActive <=> navOpen
             /\ ariaHidden = "false" <=> navOpen
             /\ ariaHidden \in {"true", "false"}

C25_Witness ==
    /\ hasNav /\ hasToggle /\ hasOverlay /\ last.op = "clickMenuToggle"
    /\ navOpen /\ ariaExpanded = "true" /\ overlayActive /\ ariaHidden = "false"
    /\ bodyOverflow = "hidden"

\* C26: at most one dropdown is open; on a width of at most 900 a click on the
\* toggle of dropdown d flips d and leaves every other dropdown closed; a click
\* outside every dropdown leaves all of them closed.
C26_AtMostOneDropdownOpen ==
    /\ \A d, e \in Dropdowns : dropdownOpen[d] /\ dropdownOpen[e] => d = e
    /\ (last.op = "clickDropdownToggle" /\ innerWidth <= 900) =>
          \A d \in Dropdowns :
              dropdownOpen[d] <=> (d = last.arg /\ ~openBefore[d])
    /\ last.op = "clickOutside" => \A d \in Dropdowns : ~dropdownOpen[d]

\* the toggle of dropdown 2 was clicked while dropdown 1 was open
C26_Witness ==
    /\ last.op = "clickDropdownToggle" /\ last.arg = 2 /\ innerWidth = 900
    /\ openBefore[1] /\ ~openBefore[2] /\ ~dropdownOpen[1] /\ dropdownOpen[2]

====
